---- MODULE Spec2Model ----
(***************************************************************************)
(* The prefetch stressor of stress-ng (stress-prefetch.c): one instance of *)
(* stress_prefetch() from its first statement to its return, with the      *)
(* harness (process state, bogo counter, stop condition, metrics, log),    *)
(* the operating system (mmap, munmap, the clock) and the memory hardware  *)
(* (a bit of the buffer may flip) as its environment.                      *)
(*                                                                         *)
(* Numbers.  TLC's integers are 32-bit, so a uint32_t is a pair of 16-bit  *)
(* limbs <<lo, hi>> and a uint64_t a tuple of four, least significant      *)
(* first; arithmetic on them wraps at 2^32 and 2^64 as the C does.  A      *)
(* double holding a rate is the exact fraction <<n, d, gb>>, which stands  *)
(* for n / (d * GB^gb); a double holding a time or a byte count is the     *)
(* integer it stands for.  An array of structs is a record of sequences,   *)
(* one per member: prefetch_info[j].count is prefetch_info.count[j + 1].   *)
(***************************************************************************)
EXTENDS Integers, Sequences, FiniteSets, TLC

VARIABLES
    setting_prefetch_method,   \* "prefetch-method" in the settings store, -1 when not set
    setting_prefetch_L3_size,  \* "prefetch-L3-size" in the settings store, 0 when not set
    has_sse,             \* what stress_cpu_x86_has_sse() answers on this CPU
    topology,            \* what cache discovery answers on this machine
    pc,                  \* position in stress_prefetch()
    arch,                \* target the binary was built for
    verify,              \* g_opt_flags & OPT_FLAGS_VERIFY
    clock,               \* which timing the clock readings of this run follow
    prefetch_method,     \* index into prefetch_methods[]
    check_prefetch_rate,
    l3_data_size,
    l3_data_mmap_size,
    l3_data,             \* the mapping and what it holds
    checksum_sane,
    prefetch_info,       \* offset, count, duration, bytes, rate of each offset index
    i,                   \* loop index of stress_prefetch()
    total_count,
    success,
    checksum,            \* register of the latest measured pass
    ptr,                 \* read pointer after the latest measured pass (elements from l3_data)
    pre_ptr,             \* prefetch pointer after the latest measured pass (elements from l3_data)
    hints,               \* hints the latest measured pass issued, in order: <<pos, addr>>, bytes from l3_data
    hint_func,           \* function the latest measured pass handed them to
    best,
    best_rate,
    non_prefetch_rate,
    proc_state,          \* harness: last state given to stress_set_proc_state
    bogo,                \* harness: bogo-operation counter
    continue_calls,      \* harness: calls of stress_continue so far
    metrics,             \* harness: metrics sink, slot -> value
    log,                 \* messages written so far (kinds)
    mmaps,               \* OS: successful mmap calls
    munmaps,             \* OS: munmap calls
    exit_status

vars == <<setting_prefetch_method, setting_prefetch_L3_size, has_sse, topology,
         pc, arch, verify, clock, prefetch_method, check_prefetch_rate,
          l3_data_size, l3_data_mmap_size, l3_data, checksum_sane,
          prefetch_info, i, total_count, success, checksum, ptr, pre_ptr,
          hints, hint_func, best, best_rate, non_prefetch_rate, proc_state, bogo,
          continue_calls, metrics, log, mmaps, munmaps, exit_status>>

(***************************************************************************)
(* Program constants                                                       *)
(***************************************************************************)
KB == 1024
MB == 1048576
GB == 1073741824
MIN_PREFETCH_L3_SIZE == 4 * KB
DEFAULT_PREFETCH_L3_SIZE == 4 * MB
STRESS_PREFETCH_OFFSETS == 128
STRESS_CACHE_LINE_SIZE == 64
STRESS_PREFETCH_BUILTIN == 0
STRESS_PREFETCH_BUILTIN_L0 == 1
STRESS_PREFETCH_BUILTIN_L3 == 2
STRESS_PREFETCH_X86_PREFETCHT0 == 3
STRESS_PREFETCH_X86_PREFETCHT1 == 4
STRESS_PREFETCH_X86_PREFETCHT2 == 5
STRESS_PREFETCH_X86_PREFETCHNTA == 6
STRESS_PREFETCH_PPC64_DCBT == 7
STRESS_PREFETCH_PPC64_DCBTST == 8
WordBytes == 8

(***************************************************************************)
(* Bounds of the model                                                     *)
(***************************************************************************)
\* outer do-while iterations after which stress_continue() answers "stop"
MaxSweeps == 2
\* largest buffer whose contents the model follows; a larger request is
\* followed up to the mapping call only
MaxL3Bytes == 8192

\* targets the binary may have been built for
Archs == {"x86_64", "ppc64"}
\* values of the prefetch-method setting tried (-1: the option was not given)
OptMethods == {-1, 0, 3}
\* values of the prefetch-L3-size setting tried (0: the option was not given)
OptSizes == {0, MIN_PREFETCH_L3_SIZE, MIN_PREFETCH_L3_SIZE + 1, MIN_PREFETCH_L3_SIZE + WordBytes}
\* what cache discovery may answer: no details, no cache at the level, a
\* cache of unknown size, a cache of 8 KB
Topologies == {"no_details", "no_cache", "no_size", "8K"}
\* words of the buffer in which the hardware may flip a bit
FaultWords == {0, 512}
\* timings a run may follow
Clocks == {"flat", "base_fastest", "accel", "zero", "mixed", "cancel"}

(***************************************************************************)
(* uint32_t and uint64_t arithmetic on 16-bit limbs                        *)
(***************************************************************************)
W16 == 2 ^ 16

U32(n) == <<n % W16, n \div W16>>

Zero64 == <<0, 0, 0, 0>>

\* x + y on uint64_t
Carry(x, y, k, c) == x[k] + y[k] + c

Add64c(x, y, s1) ==
    LET s2 == Carry(x, y, 2, s1 \div W16)
        s3 == Carry(x, y, 3, s2 \div W16)
        s4 == Carry(x, y, 4, s3 \div W16)
    IN  <<s1 % W16, s2 % W16, s3 % W16, s4 % W16>>

Add64(x, y) == Add64c(x, y, x[1] + y[1])

\* a * s + c on uint32_t
MulAdd32(a, s, c) ==
    LET t0 == a[1] * s[1] + c[1]
        t1 == a[1] * s[2] + a[2] * s[1] + c[2] + (t0 \div W16)
    IN  <<t0 % W16, t1 % W16>>

\* seed | (uint64_t)seed2 << 32
Join64(s1, s2) == <<s1[1], s1[2], s2[1], s2[2]>>

(***************************************************************************)
(* The buffer.  l3_data is the mapping: whether it exists, how many bytes  *)
(* of it stress_prefetch_data_set filled (0: the fresh zero pages mmap     *)
(* returned) and the word, if any, in which the hardware flipped a bit     *)
(* since (-1: none).  Word(m, k) is the uint64_t at l3_data + k.           *)
(***************************************************************************)
NoFault == 0 - 1

Unmapped == [mapped |-> FALSE, filled |-> 0, fault |-> NoFault]

\* MAP_ANONYMOUS pages
Fresh == [mapped |-> TRUE, filled |-> 0, fault |-> NoFault]

\* stress_prefetch_data_set: while (l3_data < l3_data_end), iterations lo..hi-1,
\* from st = [mem: the words stored so far, seed, checksum].  The range is
\* halved instead of walked so that the evaluation stays shallow; the
\* iterations still run in order, each on the state the one before left.
RECURSIVE stress_prefetch_data_set_loop(_, _, _)
stress_prefetch_data_set_loop(st, lo, hi) ==
    IF hi <= lo THEN st
    ELSE IF hi = lo + 1 THEN
        LET a == U32(16843009)
            c == U32(826366247)
            seed1 == MulAdd32(a, st.seed, c)
            seed2 == MulAdd32(a, seed1, c)
            val == Join64(seed1, seed2)
        IN  [mem |-> Append(st.mem, val), seed |-> seed2,
             checksum |-> Add64(st.checksum, val)]
    ELSE
        LET mid == (lo + hi) \div 2
            left == stress_prefetch_data_set_loop(st, lo, mid)
        IN  IF Len(left.mem) >= 0
            THEN stress_prefetch_data_set_loop(left, mid, hi)
            ELSE st

\* words a buffer of n bytes makes stress_prefetch_data_set store: the
\* pointer advances 8 bytes at a time while it is below l3_data + n
WordsStored(n) == (n + WordBytes - 1) \div WordBytes

stress_prefetch_data_set(n) ==
    stress_prefetch_data_set_loop(
        [mem |-> <<>>, seed |-> U32(123456789), checksum |-> Zero64],
        0, WordsStored(n))

\* buffer sizes whose contents the model follows
RunSizes == ((OptSizes \ {0}) \cup {8 * KB}) \cap (1..MaxL3Bytes)

\* what stress_prefetch_data_set leaves, per buffer size
DataSet == [n \in RunSizes |-> stress_prefetch_data_set(n)]

FlipBit(w) == <<IF w[1] % 2 = 0 THEN w[1] + 1 ELSE w[1] - 1, w[2], w[3], w[4]>>

Stored(m, k) ==
    IF m.filled > 0 /\ k < WordsStored(m.filled)
    THEN DataSet[m.filled].mem[k + 1]
    ELSE Zero64

\* w, with a bit flipped if the fault is in it
Faulted(w, hit) == IF hit THEN FlipBit(w) ELSE w

Word(m, k) == Faulted(Stored(m, k), m.fault = k)

(***************************************************************************)
(* The method table and its dispatch                                       *)
(***************************************************************************)
\* prefetch_methods[] as the preprocessor leaves it on each target
prefetch_methods(a) ==
    LET generic == <<
            [name |-> "builtin",   method |-> STRESS_PREFETCH_BUILTIN,
             available |-> "stress_prefetch_true", check_prefetch_rate |-> FALSE],
            [name |-> "builtinl0", method |-> STRESS_PREFETCH_BUILTIN_L0,
             available |-> "stress_prefetch_true", check_prefetch_rate |-> FALSE],
            [name |-> "builtinl3", method |-> STRESS_PREFETCH_BUILTIN_L3,
             available |-> "stress_prefetch_true", check_prefetch_rate |-> FALSE] >>
        x86 == <<
            [name |-> "prefetcht0",  method |-> STRESS_PREFETCH_X86_PREFETCHT0,
             available |-> "stress_cpu_x86_has_sse", check_prefetch_rate |-> TRUE],
            [name |-> "prefetcht1",  method |-> STRESS_PREFETCH_X86_PREFETCHT1,
             available |-> "stress_cpu_x86_has_sse", check_prefetch_rate |-> TRUE],
            [name |-> "prefetcht2",  method |-> STRESS_PREFETCH_X86_PREFETCHT2,
             available |-> "stress_cpu_x86_has_sse", check_prefetch_rate |-> TRUE],
            [name |-> "prefetchnta", method |-> STRESS_PREFETCH_X86_PREFETCHNTA,
             available |-> "stress_cpu_x86_has_sse", check_prefetch_rate |-> TRUE] >>
        ppc == <<
            [name |-> "dcbt",   method |-> STRESS_PREFETCH_PPC64_DCBT,
             available |-> "stress_prefetch_true", check_prefetch_rate |-> TRUE],
            [name |-> "dcbtst", method |-> STRESS_PREFETCH_PPC64_DCBTST,
             available |-> "stress_prefetch_true", check_prefetch_rate |-> TRUE] >>
    IN  IF a = "x86_64" THEN generic \o x86 ELSE generic \o ppc

\* no availability test at all
Available_always(a, m, sse) == TRUE

\* prefetch_methods[m].available() on a CPU that has SSE or not
Available(a, m, sse) ==
    IF prefetch_methods(a)[m + 1].available = "stress_prefetch_true"
    THEN TRUE
    ELSE sse

\* the function the measured pass hands each prefetch address to: none for
\* offset 0, else the case of switch (prefetch_method) compiled on the target
HintFunc(a, m, offset) ==
    IF offset = 0 THEN "stress_prefetch_none"
    ELSE IF m = STRESS_PREFETCH_BUILTIN_L0 THEN "stress_prefetch_builtin_locality0"
    ELSE IF m = STRESS_PREFETCH_BUILTIN_L3 THEN "stress_prefetch_builtin_locality3"
    ELSE IF a = "x86_64" /\ m = STRESS_PREFETCH_X86_PREFETCHT0 THEN "stress_asm_x86_prefetcht0"
    ELSE IF a = "x86_64" /\ m = STRESS_PREFETCH_X86_PREFETCHT1 THEN "stress_asm_x86_prefetcht1"
    ELSE IF a = "x86_64" /\ m = STRESS_PREFETCH_X86_PREFETCHT2 THEN "stress_asm_x86_prefetcht2"
    ELSE IF a = "x86_64" /\ m = STRESS_PREFETCH_X86_PREFETCHNTA THEN "stress_asm_x86_prefetchnta"
    ELSE IF a = "ppc64" /\ m = STRESS_PREFETCH_PPC64_DCBT THEN "stress_asm_ppc64_dcbt"
    ELSE IF a = "ppc64" /\ m = STRESS_PREFETCH_PPC64_DCBTST THEN "stress_asm_ppc64_dcbtst"
    ELSE "stress_prefetch_builtin"

(***************************************************************************)
(* The measured pass                                                       *)
(***************************************************************************)
\* a turn that adds *(ptr + 6) twice and *(ptr + 7) never
STRESS_PREFETCH_LOOP_body_skip(st, m, hinting, v) ==
    LET p == st.ptr
        c1 == Add64(st.checksum, Word(m, p))
        c2 == Add64(c1, Word(m, p + 1))
        c3 == Add64(c2, Word(m, p + 2))
        c4 == Add64(c3, Word(m, p + 3))
        c5 == Add64(c4, Word(m, p + 4))
        c6 == Add64(c5, Word(m, p + 5))
        c7 == Add64(c6, Word(m, p + 6))
        c8 == Add64(c7, Word(m, p + 6))
    IN  [ptr |-> p + 8,
         pre_ptr |-> st.pre_ptr + 8,
         checksum |-> IF v THEN c8 ELSE st.checksum,
         hints |-> IF hinting
                   THEN Append(st.hints, <<WordBytes * p, WordBytes * st.pre_ptr>>)
                   ELSE st.hints]

\* one turn of the loop of STRESS_PREFETCH_LOOP on st = [ptr, pre_ptr,
\* checksum, hints]; ptr and pre_ptr count uint64_t elements from l3_data,
\* a hint records the byte the read stood at and the byte handed to func
STRESS_PREFETCH_LOOP_body(st, m, hinting, v) ==
    LET p == st.ptr
        c1 == Add64(st.checksum, Word(m, p))
        c2 == Add64(c1, Word(m, p + 1))
        c3 == Add64(c2, Word(m, p + 2))
        c4 == Add64(c3, Word(m, p + 3))
        c5 == Add64(c4, Word(m, p + 4))
        c6 == Add64(c5, Word(m, p + 5))
        c7 == Add64(c6, Word(m, p + 6))
        c8 == Add64(c7, Word(m, p + 7))
    IN  [ptr |-> p + 8,
         pre_ptr |-> st.pre_ptr + 8,
         checksum |-> IF v THEN c8 ELSE st.checksum,
         hints |-> IF hinting
                   THEN Append(st.hints, <<WordBytes * p, WordBytes * st.pre_ptr>>)
                   ELSE st.hints]

\* turns a buffer of n bytes takes: ptr advances 8 elements a turn while
\* it is below l3_data_end
Turns(n) == (n + 8 * WordBytes - 1) \div (8 * WordBytes)

\* turns lo..hi-1 of the loop, in order (the range halved, as above)
RECURSIVE STRESS_PREFETCH_LOOP_turns(_, _, _, _, _, _)
STRESS_PREFETCH_LOOP_turns(st, m, hinting, v, lo, hi) ==
    IF hi <= lo THEN st
    ELSE IF hi = lo + 1 THEN STRESS_PREFETCH_LOOP_body(st, m, hinting, v)
    ELSE
        LET mid == (lo + hi) \div 2
            left == STRESS_PREFETCH_LOOP_turns(st, m, hinting, v, lo, mid)
        IN  IF left.ptr >= 0 /\ left.checksum[1] >= 0 /\ Len(left.hints) >= 0
            THEN STRESS_PREFETCH_LOOP_turns(left, m, hinting, v, mid, hi)
            ELSE st

\* STRESS_PREFETCH_LOOP(func, type) as stress_prefetch_benchmark uses it:
\* from ptr = l3_data and pre_ptr = l3_data + offset, on buffer m of n
\* bytes; with verify the register starts at 0, else it keeps what it held
STRESS_PREFETCH_LOOP(m, n, offset, v, held) ==
    STRESS_PREFETCH_LOOP_turns(
        [ptr |-> 0, pre_ptr |-> offset,
         checksum |-> IF v THEN Zero64 ELSE held, hints |-> <<>>],
        m, offset # 0, v, 0, Turns(n))

\* contents a buffer the model follows can have
Images ==
    {[mapped |-> TRUE, filled |-> n, fault |-> f] :
        n \in RunSizes, f \in FaultWords \cup {NoFault}}

Offset(j) == j * STRESS_CACHE_LINE_SIZE

\* the unverified measured pass reads the words and keeps none
UnverifiedPass ==
    [n \in RunSizes |-> [j \in 0 .. STRESS_PREFETCH_OFFSETS - 1 |->
        STRESS_PREFETCH_LOOP(Fresh, n, Offset(j), FALSE, Zero64)]]

\* the sum a verified measured pass builds from each buffer content; func
\* and pre_ptr neither read nor write what the sum is made of, so it is
\* computed by the loop once per content rather than once per offset
VerifiedSum ==
    [m \in Images |-> STRESS_PREFETCH_LOOP(m, m.filled, 0, TRUE, Zero64).checksum]

\* the verified measured pass, for every buffer content and offset index
VerifiedPass ==
    LET walk == UnverifiedPass
        sum == VerifiedSum
    IN  [m \in Images |-> [j \in 0 .. STRESS_PREFETCH_OFFSETS - 1 |->
            [walk[m.filled][j] EXCEPT !.checksum = sum[m]]]]

(***************************************************************************)
(* Clock readings.  Cal is t2 - t1 (the overhead loop) and Meas is t4 - t3 *)
(* (the measured pass) of the pass for offset index j in outer iteration   *)
(* sweep, in ticks; stress_prefetch_benchmark keeps their difference.      *)
(***************************************************************************)
Cal(ck, sweep, j) == 2

Meas(ck, sweep, j) ==
    CASE ck = "flat" -> 3
      [] ck = "base_fastest" -> IF j = 0 THEN 3 ELSE 4
      [] ck = "accel" -> IF j = 0 THEN 5 ELSE IF j \in {64, 127} THEN 3 ELSE 4
      [] ck = "zero" -> 2
      [] ck = "mixed" -> IF j = 0 THEN 1 ELSE IF j = 1 THEN 2 ELSE IF j = 3 THEN 3 ELSE 4
      [] ck = "cancel" -> IF sweep = 1 THEN 3 ELSE 1

(***************************************************************************)
(* Rates                                                                   *)
(***************************************************************************)
ZeroRate == <<0, 1, 0>>

\* bytes / duration
Rate(bytes, duration) == <<bytes, duration, 0>>

\* r / (double)GB
DivGB(r) == <<r[1], r[2], r[3] + 1>>

\* a < b for rates with gb in {0, 1}
RateLess(a, b) ==
    IF a[3] = b[3] THEN a[1] * b[2] < b[1] * a[2]
    ELSE IF a[3] > b[3] THEN (a[1] * b[2]) \div GB < b[1] * a[2]
    ELSE a[1] * b[2] < (b[1] * a[2] + GB - 1) \div GB

\* prefetch_info[j].rate as the loop below assigns it
RateOf(info, j) ==
    IF info.duration[j + 1] > 0
    THEN Rate(info.bytes[j + 1], info.duration[j + 1])
    ELSE ZeroRate

\* ">=" in place of ">": the last of equal rates would win
Better_or_equal(rate, current) == ~RateLess(rate, current)

\* whether "prefetch_info[i].rate > best_rate" holds
Better(rate, current) == RateLess(current, rate)

\* the loop at "best = 0; best_rate = 0.0; for (i = 0; ...)", turns lo..hi-1
\* in order (the range halved, as above), on st = <<best, best_rate>>
RECURSIVE SelectLoop(_, _, _, _)
SelectLoop(info, st, lo, hi) ==
    IF hi <= lo THEN st
    ELSE IF hi = lo + 1 THEN
        IF Better(RateOf(info, lo), st[2]) THEN <<lo, RateOf(info, lo)>> ELSE st
    ELSE
        LET mid == (lo + hi) \div 2
            left == SelectLoop(info, st, lo, mid)
        IN  IF left[1] >= 0 THEN SelectLoop(info, left, mid, hi) ELSE st

(***************************************************************************)
(* stress_prefetch()                                                       *)
(***************************************************************************)
OffsetIndexes == 0 .. STRESS_PREFETCH_OFFSETS - 1

\* the offsets "prefetch_info[i].offset = i * STRESS_CACHE_LINE_SIZE" assigns
Offsets == [j \in 1 .. STRESS_PREFETCH_OFFSETS |-> Offset(j - 1)]

\* prefetch_info[] with the given offsets and every other member zero
Cleared(offsets) ==
    [offset |-> offsets,
     count |-> [j \in 1 .. STRESS_PREFETCH_OFFSETS |-> 0],
     duration |-> [j \in 1 .. STRESS_PREFETCH_OFFSETS |-> 0],
     bytes |-> [j \in 1 .. STRESS_PREFETCH_OFFSETS |-> 0],
     rate |-> [j \in 1 .. STRESS_PREFETCH_OFFSETS |-> ZeroRate]]

\* the runs followed: every target, method, CPU and clock on the smallest
\* buffer, and every way of resolving the buffer size on one of them
Runs ==
    {r \in [arch : Archs, method : OptMethods, sse : BOOLEAN, clock : Clocks,
            size : OptSizes, topology : Topologies] :
        \/ /\ r.size = MIN_PREFETCH_L3_SIZE
           /\ r.topology = "no_details"
           /\ r.arch = "ppc64" => r.sse = FALSE
           /\ r.method < STRESS_PREFETCH_X86_PREFETCHT0 => r.sse = (r.arch = "x86_64")
        \/ /\ r.arch = "x86_64"
           /\ r.method < 0
           /\ r.sse = TRUE
           /\ r.clock = "flat"
           /\ r.size # 0 => r.topology = "no_details"}

Init ==
    /\ pc = "start"
    /\ verify \in BOOLEAN
    /\ \E r \in Runs :
        /\ arch = r.arch
        /\ setting_prefetch_method = r.method
        /\ has_sse = r.sse
        /\ clock = r.clock
        /\ setting_prefetch_L3_size = r.size
        /\ topology = r.topology
    /\ prefetch_method = STRESS_PREFETCH_BUILTIN
    /\ check_prefetch_rate = FALSE
    /\ l3_data_size = 0
    /\ l3_data_mmap_size = 0
    /\ l3_data = Unmapped
    /\ checksum_sane = Zero64
    /\ prefetch_info = Cleared([j \in 1 .. STRESS_PREFETCH_OFFSETS |-> 0])
    /\ i = 0
    /\ total_count = 0
    /\ success = TRUE
    /\ checksum = Zero64
    /\ ptr = 0
    /\ pre_ptr = 0
    /\ hints = <<>>
    /\ hint_func = "none yet"
    /\ best = 0
    /\ best_rate = ZeroRate
    /\ non_prefetch_rate = ZeroRate
    /\ proc_state = "STRESS_STATE_INIT"
    /\ bogo = 0
    /\ continue_calls = 0
    /\ metrics = <<>>
    /\ log = {}
    /\ mmaps = 0
    /\ munmaps = 0
    /\ exit_status = "none"

\* stress_get_setting("prefetch-method"), the availability test and
\* check_prefetch_rate
CheckAvailable ==
    /\ pc = "start"
    /\ LET m == IF setting_prefetch_method < 0
                THEN prefetch_method
                ELSE setting_prefetch_method
       IN
        /\ prefetch_method' = m
        /\ IF ~Available(arch, m, has_sse)
           THEN /\ log' = log \cup {"not available"}
                /\ exit_status' = "EXIT_NO_RESOURCE"
                /\ pc' = "done"
                /\ UNCHANGED check_prefetch_rate
           ELSE /\ check_prefetch_rate' =
                       IF arch = "x86_64" THEN TRUE
                       ELSE prefetch_methods(arch)[m + 1].check_prefetch_rate
                /\ pc' = "size"
                /\ UNCHANGED <<log, exit_status>>
    /\ UNCHANGED <<setting_prefetch_method, setting_prefetch_L3_size, has_sse, topology,
                   arch, verify, clock, l3_data_size, l3_data_mmap_size, l3_data,
                   checksum_sane, prefetch_info, i, total_count, success, checksum,
                   ptr, pre_ptr, hints, hint_func, best, best_rate, non_prefetch_rate,
                   proc_state, bogo, continue_calls, metrics, mmaps, munmaps>>

\* get_prefetch_L3_size on what cache discovery answers
get_prefetch_L3_size(t) ==
    LET cache_size == IF t = "8K" THEN 8 * KB ELSE 0 IN
    IF t = "no_details" THEN DEFAULT_PREFETCH_L3_SIZE
    ELSE IF t = "no_cache" THEN DEFAULT_PREFETCH_L3_SIZE
    ELSE IF cache_size = 0 THEN DEFAULT_PREFETCH_L3_SIZE
    ELSE cache_size

\* a mapping of the buffer alone, without the room for the offsets
MmapSize_unpadded(n) == n

\* l3_data_size + (STRESS_PREFETCH_OFFSETS * STRESS_CACHE_LINE_SIZE)
MmapSize(n) == n + STRESS_PREFETCH_OFFSETS * STRESS_CACHE_LINE_SIZE

\* stress_get_setting("prefetch-L3-size"), the fallback and the mapping size
ResolveSize ==
    /\ pc = "size"
    /\ LET n == IF setting_prefetch_L3_size = 0
                THEN get_prefetch_L3_size(topology)
                ELSE setting_prefetch_L3_size
       IN
        /\ l3_data_size' = n
        /\ l3_data_mmap_size' = MmapSize(n)
    /\ pc' = "mmap"
    /\ UNCHANGED <<setting_prefetch_method, setting_prefetch_L3_size, has_sse, topology,
                   arch, verify, clock, prefetch_method, check_prefetch_rate, l3_data,
                   checksum_sane, prefetch_info, i, total_count, success, checksum,
                   ptr, pre_ptr, hints, hint_func, best, best_rate, non_prefetch_rate,
                   proc_state, bogo, continue_calls, metrics, log, mmaps, munmaps,
                   exit_status>>

\* mmap(NULL, l3_data_mmap_size, ...) and the MAP_FAILED test
Mmap ==
    /\ pc = "mmap"
    /\ \E failed \in BOOLEAN :
        IF failed
        THEN /\ log' = log \cup {"cannot allocate"}
             /\ exit_status' = "EXIT_NO_RESOURCE"
             /\ pc' = "done"
             /\ UNCHANGED <<l3_data, mmaps>>
        ELSE /\ l3_data_size <= MaxL3Bytes
             /\ l3_data' = Fresh
             /\ mmaps' = mmaps + 1
             /\ pc' = "data_set"
             /\ UNCHANGED <<log, exit_status>>
    /\ UNCHANGED <<setting_prefetch_method, setting_prefetch_L3_size, has_sse, topology,
                   arch, verify, clock, prefetch_method, check_prefetch_rate,
                   l3_data_size, l3_data_mmap_size, checksum_sane, prefetch_info, i,
                   total_count, success, checksum, ptr, pre_ptr, hints, hint_func, best,
                   best_rate, non_prefetch_rate, proc_state, bogo, continue_calls,
                   metrics, munmaps>>

\* l3_data_end, stress_prefetch_data_set, the loop that clears
\* prefetch_info[] and stress_set_proc_state(STRESS_STATE_RUN)
Prepare ==
    /\ pc = "data_set"
    /\ l3_data' = [l3_data EXCEPT !.filled = l3_data_size]
    /\ checksum_sane' = DataSet[l3_data_size].checksum
    /\ prefetch_info' = Cleared(Offsets)
    /\ proc_state' = "STRESS_STATE_RUN"
    /\ i' = 0
    /\ pc' = "benchmark"
    /\ UNCHANGED <<setting_prefetch_method, setting_prefetch_L3_size, has_sse, topology,
                   arch, verify, clock, prefetch_method, check_prefetch_rate,
                   l3_data_size, l3_data_mmap_size, total_count, success, checksum,
                   ptr, pre_ptr, hints, hint_func, best, best_rate, non_prefetch_rate, bogo,
                   continue_calls, metrics, log, mmaps, munmaps, exit_status>>

\* the loop bound one short: the last offset would never be benchmarked
SweepDone_early(j) == j >= STRESS_PREFETCH_OFFSETS - 1

\* "i < SIZEOF_ARRAY(prefetch_info)" no longer holds
SweepDone(j) == j >= STRESS_PREFETCH_OFFSETS

\* one turn of "for (i = 0; i < SIZEOF_ARRAY(prefetch_info); i++)":
\* stress_prefetch_benchmark for offset index i, then "if (!success) break"
Benchmark ==
    /\ pc = "benchmark"
    /\ ~SweepDone(i)
    /\ \E pass \in {IF verify
                     THEN VerifiedPass[l3_data][i]
                     ELSE UnverifiedPass[l3_data_size][i]} :
       LET offset == prefetch_info.offset[i + 1]
           failed == verify /\ pass.checksum # checksum_sane
           ok == IF failed THEN FALSE ELSE success
       IN
        /\ hint_func' = HintFunc(arch, prefetch_method, offset)
        /\ hints' = pass.hints
        /\ ptr' = pass.ptr
        /\ pre_ptr' = pass.pre_ptr
        /\ checksum' = IF verify THEN pass.checksum ELSE checksum
        /\ log' = IF failed THEN log \cup {"checksum failure"} ELSE log
        /\ success' = ok
        /\ prefetch_info' = [prefetch_info EXCEPT
                !.bytes[i + 1] = @ + l3_data_size,
                !.duration[i + 1] = @ + (Meas(clock, bogo + 1, i) - Cal(clock, bogo + 1, i)),
                !.count[i + 1] = @ + 1]
        /\ total_count' = total_count + 1
        /\ IF ~ok
           THEN /\ i' = i
                /\ pc' = "bogo_inc"
           ELSE /\ i' = i + 1
                /\ pc' = IF SweepDone(i + 1) THEN "bogo_inc" ELSE "benchmark"
    /\ UNCHANGED <<setting_prefetch_method, setting_prefetch_L3_size, has_sse, topology,
                   arch, verify, clock, prefetch_method, check_prefetch_rate,
                   l3_data_size, l3_data_mmap_size, l3_data, checksum_sane, best,
                   best_rate, non_prefetch_rate, proc_state, bogo, continue_calls,
                   metrics, mmaps, munmaps, exit_status>>

\* the hardware flips a bit of the buffer between two passes
MemoryFault ==
    /\ pc = "benchmark"
    /\ l3_data.fault = NoFault
    /\ \E w \in FaultWords : l3_data' = [l3_data EXCEPT !.fault = w]
    /\ UNCHANGED <<setting_prefetch_method, setting_prefetch_L3_size, has_sse, topology,
                   pc, arch, verify, clock, prefetch_method, check_prefetch_rate,
                   l3_data_size, l3_data_mmap_size, checksum_sane, prefetch_info, i,
                   total_count, success, checksum, ptr, pre_ptr, hints, hint_func, best,
                   best_rate, non_prefetch_rate, proc_state, bogo, continue_calls,
                   metrics, log, mmaps, munmaps, exit_status>>

\* "while (stress_continue(args))": the loop would go on after a failure
BogoInc_unconditional ==
    /\ pc = "bogo_inc"
    /\ bogo' = bogo + 1
    /\ \E continue \in BOOLEAN :
        /\ continue => bogo + 1 < MaxSweeps
        /\ continue_calls' = continue_calls + 1
        /\ IF continue
           THEN i' = 0 /\ pc' = "benchmark"
           ELSE i' = i /\ pc' = "select"
    /\ UNCHANGED <<setting_prefetch_method, setting_prefetch_L3_size, has_sse, topology,
                   arch, verify, clock, prefetch_method, check_prefetch_rate,
                   l3_data_size, l3_data_mmap_size, l3_data, checksum_sane,
                   prefetch_info, total_count, success, checksum, ptr, pre_ptr, hints,
                   hint_func, best, best_rate, non_prefetch_rate, proc_state, metrics,
                   log, mmaps, munmaps, exit_status>>

\* stress_bogo_inc(args) and "while (success && stress_continue(args))"
BogoInc ==
    /\ pc = "bogo_inc"
    /\ bogo' = bogo + 1
    /\ IF success
       THEN \E continue \in BOOLEAN :
            /\ continue => bogo + 1 < MaxSweeps
            /\ continue_calls' = continue_calls + 1
            /\ IF continue
               THEN i' = 0 /\ pc' = "benchmark"
               ELSE i' = i /\ pc' = "select"
       ELSE /\ continue_calls' = continue_calls
            /\ i' = i
            /\ pc' = "select"
    /\ UNCHANGED <<setting_prefetch_method, setting_prefetch_L3_size, has_sse, topology,
                   arch, verify, clock, prefetch_method, check_prefetch_rate,
                   l3_data_size, l3_data_mmap_size, l3_data, checksum_sane,
                   prefetch_info, total_count, success, checksum, ptr, pre_ptr, hints,
                   hint_func, best, best_rate, non_prefetch_rate, proc_state, metrics,
                   log, mmaps, munmaps, exit_status>>

\* the rates, the best offset, the two metrics and the sanity check
Select ==
    /\ pc = "select"
    /\ LET st == SelectLoop(prefetch_info, <<0, ZeroRate>>, 0, STRESS_PREFETCH_OFFSETS)
           rates == [j \in 1 .. STRESS_PREFETCH_OFFSETS |-> RateOf(prefetch_info, j - 1)]
           npr == DivGB(rates[1])
           br == DivGB(st[2])
           bad == verify /\ check_prefetch_rate /\ RateLess(br, npr)
       IN
        /\ prefetch_info' = [prefetch_info EXCEPT !.rate = rates]
        /\ best' = st[1]
        /\ i' = STRESS_PREFETCH_OFFSETS
        /\ non_prefetch_rate' = npr
        /\ best_rate' = br
        /\ metrics' = (0 :> npr) @@ (1 :> br)
        /\ log' = IF bad THEN log \cup {"rate failure"} ELSE log
        /\ success' = IF bad THEN FALSE ELSE success
    /\ pc' = "deinit"
    /\ UNCHANGED <<setting_prefetch_method, setting_prefetch_L3_size, has_sse, topology,
                   arch, verify, clock, prefetch_method, check_prefetch_rate,
                   l3_data_size, l3_data_mmap_size, l3_data, checksum_sane, total_count,
                   checksum, ptr, pre_ptr, hints, hint_func, proc_state, bogo,
                   continue_calls, mmaps, munmaps, exit_status>>

\* stress_set_proc_state(args->name, STRESS_STATE_DEINIT)
Deinit ==
    /\ pc = "deinit"
    /\ proc_state' = "STRESS_STATE_DEINIT"
    /\ pc' = "munmap"
    /\ UNCHANGED <<setting_prefetch_method, setting_prefetch_L3_size, has_sse, topology,
                   arch, verify, clock, prefetch_method, check_prefetch_rate,
                   l3_data_size, l3_data_mmap_size, l3_data, checksum_sane,
                   prefetch_info, i, total_count, success, checksum, ptr, pre_ptr,
                   hints, hint_func, best, best_rate, non_prefetch_rate, bogo,
                   continue_calls, metrics, log, mmaps, munmaps, exit_status>>

\* a return that leaves the mapping in place
Munmap_leak ==
    /\ pc = "munmap"
    /\ pc' = "return"
    /\ UNCHANGED <<setting_prefetch_method, setting_prefetch_L3_size, has_sse, topology,
                   arch, verify, clock, prefetch_method, check_prefetch_rate,
                   l3_data_size, l3_data_mmap_size, l3_data, checksum_sane, prefetch_info,
                   i, total_count, success, checksum, ptr, pre_ptr, hints, hint_func,
                   best, best_rate, non_prefetch_rate, proc_state, bogo, continue_calls,
                   metrics, log, mmaps, munmaps, exit_status>>

\* munmap((void *)l3_data, l3_data_mmap_size)
Munmap ==
    /\ pc = "munmap"
    /\ l3_data' = [l3_data EXCEPT !.mapped = FALSE]
    /\ munmaps' = munmaps + 1
    /\ pc' = "return"
    /\ UNCHANGED <<setting_prefetch_method, setting_prefetch_L3_size, has_sse, topology,
                   arch, verify, clock, prefetch_method, check_prefetch_rate,
                   l3_data_size, l3_data_mmap_size, checksum_sane, prefetch_info, i,
                   total_count, success, checksum, ptr, pre_ptr, hints, hint_func, best,
                   best_rate, non_prefetch_rate, proc_state, bogo, continue_calls,
                   metrics, log, mmaps, exit_status>>

\* return success ? EXIT_SUCCESS : EXIT_FAILURE
Return ==
    /\ pc = "return"
    /\ exit_status' = IF success THEN "EXIT_SUCCESS" ELSE "EXIT_FAILURE"
    /\ pc' = "done"
    /\ UNCHANGED <<setting_prefetch_method, setting_prefetch_L3_size, has_sse, topology,
                   arch, verify, clock, prefetch_method, check_prefetch_rate,
                   l3_data_size, l3_data_mmap_size, l3_data, checksum_sane,
                   prefetch_info, i, total_count, success, checksum, ptr, pre_ptr,
                   hints, hint_func, best, best_rate, non_prefetch_rate, proc_state,
                   bogo, continue_calls, metrics, log, mmaps, munmaps>>

Next ==
    \/ CheckAvailable
    \/ ResolveSize
    \/ Mmap
    \/ Prepare
    \/ Benchmark
    \/ MemoryFault
    \/ BogoInc
    \/ Select
    \/ Deinit
    \/ Munmap
    \/ Return

Spec == Init /\ [][Next]_vars

(***************************************************************************)
(* Properties                                                              *)
(***************************************************************************)
\* stress_prefetch has returned from its last line
Returned == pc = "done" /\ exit_status \in {"EXIT_SUCCESS", "EXIT_FAILURE"}

\* the rates and the best offset have been worked out
Selected == pc \in {"deinit", "munmap", "return"} \/ Returned

\* the byte offset of the latest measured pass: pre_ptr started that many
\* elements ahead of ptr and both advanced alike
LatestOffset == pre_ptr - ptr

\* C1: whenever the rate of offset 0 exceeds the rate of every other offset,
\* with verify and check_prefetch_rate both set, the run has success false
\* and returns EXIT_FAILURE
SanityCheckReportsFailure ==
    (/\ Returned
     /\ verify
     /\ check_prefetch_rate
     /\ \A j \in 1 .. STRESS_PREFETCH_OFFSETS - 1 :
            RateLess(prefetch_info.rate[j + 1], prefetch_info.rate[1]))
    => (~success /\ exit_status = "EXIT_FAILURE")

\* C2: a method whose available() answers false, or a failed mmap, ends the
\* run with EXIT_NO_RESOURCE, and a run that ends so never left
\* STRESS_STATE_INIT, mapped nothing, ran no pass, counted no bogo-op and
\* set no metric
UnavailableMethodIsSkipped ==
    /\ (/\ pc # "start"
        /\ prefetch_methods(arch)[prefetch_method + 1].available = "stress_cpu_x86_has_sse"
        /\ ~has_sse)
       => (pc = "done" /\ exit_status = "EXIT_NO_RESOURCE")
    /\ "cannot allocate" \in log => (pc = "done" /\ exit_status = "EXIT_NO_RESOURCE")
    /\ exit_status = "EXIT_NO_RESOURCE"
       => /\ proc_state = "STRESS_STATE_INIT"
          /\ mmaps = 0
          /\ ~l3_data.mapped
          /\ total_count = 0
          /\ hints = <<>>
          /\ bogo = 0
          /\ metrics = <<>>
    /\ proc_state # "STRESS_STATE_INIT" => exit_status # "EXIT_NO_RESOURCE"

\* a run on a CPU without SSE asked for an x86 prefetch instruction, and
\* was skipped
UnavailableMethodIsSkipped_witness ==
    /\ pc = "done"
    /\ "not available" \in log
    /\ ~has_sse
    /\ prefetch_method = STRESS_PREFETCH_X86_PREFETCHT0
    /\ exit_status = "EXIT_NO_RESOURCE"

\* C3: a mapped buffer is unmapped exactly once, after STRESS_STATE_DEINIT
\* was signalled and before the exit status is returned, however the run
\* ended; it stays mapped as long as a pass can still run
BufferReleasedOnce ==
    /\ munmaps <= 1
    /\ munmaps <= mmaps
    /\ munmaps = 1 => (/\ proc_state = "STRESS_STATE_DEINIT"
                       /\ pc \in {"return", "done"}
                       /\ ~l3_data.mapped)
    /\ (mmaps = 1 /\ munmaps = 0) => l3_data.mapped
    /\ pc \in {"data_set", "benchmark", "bogo_inc", "select", "deinit"}
       => (l3_data.mapped /\ munmaps = 0)
    /\ (pc = "done" /\ mmaps = 1) => munmaps = 1
    /\ Returned => (mmaps = 1 /\ munmaps = 1)

\* a checksum mismatch in the middle of the second sweep, the buffer
\* released once and the status returned
BufferReleasedOnce_witness ==
    /\ Returned
    /\ "checksum failure" \in log
    /\ bogo = 2
    /\ prefetch_info.count[1] = 2
    /\ prefetch_info.count[STRESS_PREFETCH_OFFSETS] = 1
    /\ proc_state = "STRESS_STATE_DEINIT"
    /\ munmaps = 1

\* C4: once a verified pass has reported a checksum failure no pass is run
\* again and stress_continue is not called again; success is false from
\* then on and the run returns EXIT_FAILURE
FailFastOnCorruption ==
    /\ [][("checksum failure" \in log)
            => /\ total_count' = total_count
               /\ prefetch_info'.count = prefetch_info.count
               /\ continue_calls' = continue_calls
               /\ pc' # "benchmark"]_vars
    /\ []("checksum failure" \in log => (verify /\ ~success))
    /\ []((pc = "done" /\ "checksum failure" \in log) => exit_status = "EXIT_FAILURE")

\* a mismatch part-way through the first sweep: the later offsets were
\* never benchmarked, stress_continue was never called, the run failed
FailFastOnCorruption_witness ==
    /\ Returned
    /\ "checksum failure" \in log
    /\ total_count > 1
    /\ total_count < STRESS_PREFETCH_OFFSETS
    /\ prefetch_info.count[STRESS_PREFETCH_OFFSETS] = 0
    /\ continue_calls = 0
    /\ exit_status = "EXIT_FAILURE"

\* C5: stress_continue is asked only after a whole sweep: while a sweep
\* runs it has benchmarked exactly the offsets before i, in ascending order
\* and each once more than the sweeps before did, and the stop condition
\* has been consulted once per finished sweep and not since; so a run
\* without failure leaves every offset with the same count, of at least one
SweepsRunWhole ==
    /\ continue_calls <= bogo
    /\ pc = "benchmark"
       => /\ ~SweepDone(i)
          /\ success
          /\ continue_calls = bogo
          /\ prefetch_info.offset = Offsets
          /\ \A j \in OffsetIndexes :
                prefetch_info.count[j + 1] = bogo + (IF j < i THEN 1 ELSE 0)
    /\ (pc = "bogo_inc" /\ success)
       => \A j \in OffsetIndexes : prefetch_info.count[j + 1] = bogo + 1
    /\ (Selected /\ "checksum failure" \notin log)
       => /\ bogo >= 1
          /\ continue_calls = bogo
          /\ \A j \in OffsetIndexes : prefetch_info.count[j + 1] = bogo

\* the harness asked for a stop the first time it was consulted: one whole
\* sweep was run all the same
SweepsRunWhole_witness ==
    /\ Returned
    /\ exit_status = "EXIT_SUCCESS"
    /\ continue_calls = 1
    /\ bogo = 1
    /\ total_count = STRESS_PREFETCH_OFFSETS
    /\ \A j \in OffsetIndexes : prefetch_info.count[j + 1] = 1

\* C6: at the end of a run the bogo-operation counter equals the number of
\* sweeps that benchmarked all offsets, which is how often the last offset
\* was benchmarked
BogoCountsWholeSweeps ==
    Returned => bogo = prefetch_info.count[STRESS_PREFETCH_OFFSETS]

\* C7: the best offset is the first of those with the highest rate, the
\* rate of an offset whose duration is not positive being 0, and it is
\* never an offset that was not benchmarked
BestOffsetSelection ==
    Selected
    => /\ best \in OffsetIndexes
       /\ \A j \in OffsetIndexes :
            /\ prefetch_info.duration[j + 1] <= 0 => prefetch_info.rate[j + 1] = ZeroRate
            /\ prefetch_info.duration[j + 1] > 0
               => prefetch_info.rate[j + 1] =
                      Rate(prefetch_info.bytes[j + 1], prefetch_info.duration[j + 1])
            /\ ~RateLess(prefetch_info.rate[best + 1], prefetch_info.rate[j + 1])
            /\ j < best => RateLess(prefetch_info.rate[j + 1], prefetch_info.rate[best + 1])
       /\ prefetch_info.count[best + 1] > 0
       /\ best_rate = DivGB(prefetch_info.rate[best + 1])

\* a failure part-way through the first sweep, with a negative net duration
\* at offset 0 and a zero one at offset 64: the fourth offset is the best
BestOffsetSelection_witness ==
    /\ Selected
    /\ "checksum failure" \in log
    /\ prefetch_info.duration[1] < 0
    /\ prefetch_info.duration[2] = 0
    /\ prefetch_info.count[STRESS_PREFETCH_OFFSETS] = 0
    /\ best = 3

\* every offset i * 64, i = 0 .. 127, lies within [0, 128 * 64)
OffsetsBelowPadding ==
    \A j \in OffsetIndexes :
        /\ 0 <= j * STRESS_CACHE_LINE_SIZE
        /\ j * STRESS_CACHE_LINE_SIZE < STRESS_PREFETCH_OFFSETS * STRESS_CACHE_LINE_SIZE

\* C8 as stated: every offset i * 64 lies within [0, l3_data_size)
OffsetsInsideBuffer ==
    l3_data_mmap_size > 0
    => \A j \in OffsetIndexes :
            0 <= j * STRESS_CACHE_LINE_SIZE /\ j * STRESS_CACHE_LINE_SIZE < l3_data_size

\* C8: every offset i * 64 lies within [0, 128 * 64) and so within the
\* mapping of l3_data_mmap_size bytes, for every size the run resolves, and
\* these are the offsets prefetch_info[] is given
OffsetsInsideMapping ==
    /\ OffsetsBelowPadding
    /\ l3_data_mmap_size > 0
       => /\ l3_data_size >= MIN_PREFETCH_L3_SIZE
          /\ \A j \in OffsetIndexes : j * STRESS_CACHE_LINE_SIZE < l3_data_mmap_size
    /\ proc_state # "STRESS_STATE_INIT" => prefetch_info.offset = Offsets

\* the smallest buffer, whose last offsets lie beyond its end
OffsetsInsideMapping_witness ==
    /\ proc_state = "STRESS_STATE_RUN"
    /\ l3_data_size = MIN_PREFETCH_L3_SIZE
    /\ prefetch_info.offset[STRESS_PREFETCH_OFFSETS] >= l3_data_size
    /\ prefetch_info.offset[STRESS_PREFETCH_OFFSETS] < l3_data_mmap_size

\* C9: as long as no word of the buffer changed since
\* stress_prefetch_data_set filled it, every verified pass ends with the
\* checksum that stress_prefetch_data_set returned, and no checksum failure
\* is reported
ChecksumRoundTrip ==
    /\ (verify /\ total_count > 0 /\ l3_data.fault = NoFault) => checksum = checksum_sane
    /\ l3_data.fault = NoFault => "checksum failure" \notin log

\* a buffer one byte longer than 64 chunks of 64 bytes, verified at every
\* offset
ChecksumRoundTrip_witness ==
    /\ verify
    /\ l3_data.fault = NoFault
    /\ l3_data_size = MIN_PREFETCH_L3_SIZE + 1
    /\ total_count = STRESS_PREFETCH_OFFSETS
    /\ checksum = checksum_sane
    /\ checksum # Zero64

\* C10: the pass for byte offset d > 0 hands func the address d bytes ahead
\* of the read position, always inside the mapping, and the pass for d = 0
\* hands it none
HintsAtByteDistance ==
    total_count > 0
    => /\ LatestOffset = 0 => hints = <<>>
       /\ LatestOffset > 0 => hints # <<>>
       /\ \A k \in 1 .. Len(hints) :
            /\ hints[k][2] = hints[k][1] + LatestOffset
            /\ 0 <= hints[k][2]
            /\ hints[k][2] < l3_data_mmap_size

====
